---- MODULE Spec2Model ----
\* Model of the push-up-challenge REST backend (src/backend): the two tables
\* `user` and `record` of sql_alchemy.py and the request handlers of main_api.py.
\*
\* Every write handler is an `async def` that never awaits, so the handlers run
\* one after the other on the event loop: each is one atomic action here, acting
\* on the committed tables.  A handler works in its own session (get_db); what it
\* did not commit is rolled back when it raises, so a failed request leaves the
\* committed tables as they were at the handler's last commit.
\*
\* Storage facts the handlers rest on (sql_alchemy.py):
\*   - record.user_id is Mapped[int], hence a NOT NULL column: a statement that
\*     writes NULL into it raises IntegrityError (status 409);
\*   - the ForeignKey("user.id") is declared but SQLite does not enforce foreign
\*     keys unless the pragma is switched on, and nothing switches it on;
\*   - User.hasRecords is a one-to-many relationship without delete cascade:
\*     flushing the deletion of a User de-associates its records by an UPDATE
\*     that sets their user_id to NULL;
\*   - ids are INTEGER PRIMARY KEY rowids: a new row gets max(id) + 1;
\*   - numberOfPushups is an INTEGER column: a value outside the signed range
\*     cannot be bound (OverflowError).  The range is scaled down to
\*     -(StoreMax + 1) .. StoreMax.
EXTENDS Integers, Sequences, FiniteSets, TLC

VARIABLES users, records, request, response, before, session, workers

vars == <<users, records, request, response, before, session, workers>>

\* ------------------------------------------------------------------ bounds
MaxUserId == 2
MaxRecordId == 2
MaxBatch == 2
StoreMax == 10

UserIds == 1 .. MaxUserId
RecordIds == 1 .. MaxRecordId

\* ------------------------------------------------------------- input sets
Names == {"Alice", "Bob"}
EmailOf(name) == IF name = "Alice" THEN "a@x.com" ELSE "b@x.com"
PushupInputs == {10, 0}
DateOf(n) == IF n = 10 THEN "2024-01-01" ELSE "2024-01-02"
Deltas == {10, -10}
Skips == {-1, 0, 1}
Limits == {-1, 0, 1, 100}

SeqsUpTo(S, n) == UNION {[1 .. k -> S] : k \in 0 .. n}

\* hasRecords: Optional[List[int]] = None
HasRecordsInputs ==
    {[given |-> FALSE, ids |-> <<>>]}
        \cup {[given |-> TRUE, ids |-> s] : s \in SeqsUpTo(RecordIds, MaxBatch)}

RecordCreate ==
    {[numberOfPushups |-> n, date |-> DateOf(n), user |-> u] :
        n \in PushupInputs, u \in 0 .. MaxUserId}

UserCreate ==
    {[email |-> EmailOf(nm), name |-> nm, hasRecords |-> h] :
        nm \in Names, h \in HasRecordsInputs}

\* ----------------------------------------------------------------- tables
Max(S) == CHOOSE x \in S : \A y \in S : y <= x

Range(s) == {s[i] : i \in DOMAIN s}

NextId(table) == IF DOMAIN table = {} THEN 1 ELSE Max(DOMAIN table) + 1

Insert(table, id, row) ==
    [i \in DOMAIN table \cup {id} |-> IF i = id THEN row ELSE table[i]]

Remove(table, ids) == [i \in DOMAIN table \ ids |-> table[i]]

Record(id, date, numberOfPushups, user_id) ==
    [id |-> id, date |-> date, numberOfPushups |-> numberOfPushups,
     user_id |-> user_id]

User(id, name, email) == [id |-> id, name |-> name, email |-> email]

\* The rows of a table in rowid order, as a query without ORDER BY returns them.
RECURSIVE RowsFrom(_, _)
RowsFrom(table, i) ==
    IF \A j \in DOMAIN table : j < i THEN <<>>
    ELSE IF i \in DOMAIN table THEN <<table[i]>> \o RowsFrom(table, i + 1)
    ELSE RowsFrom(table, i + 1)

AllRows(table) == RowsFrom(table, 1)

\* record.numberOfPushups is a signed INTEGER column.
Storable(n) == n >= -(StoreMax + 1) /\ n <= StoreMax

\* The ids of the records whose user_id is `user_id`, in rowid order.
RECURSIVE IdsOf(_)
IdsOf(rows) ==
    IF rows = <<>> THEN <<>> ELSE <<Head(rows).id>> \o IdsOf(Tail(rows))

hasRecords_ids(db, user_id) ==
    IdsOf(SelectSeq(AllRows(db.records), LAMBDA r : r.user_id = user_id))

\* ------------------------------------------------------------- responses
Reply(db, status, body) ==
    [db |-> db, pending |-> db, status |-> status, body |-> body]

Fail(db, status, detail) == Reply(db, status, [detail |-> detail])

\* The handler raises while its session holds changes it has not committed:
\* `pending` is the tables as the session sees them, `db` the committed ones.
Raise(db, pending, status, detail) ==
    [Fail(db, status, detail) EXCEPT !.pending = pending]

\* ------------------------------------------------------- record handlers
\* Page returning one row more than the limit.
Page_one_too_many(rows, skip, limit) ==
    LET off == IF skip < 0 THEN 0 ELSE skip
        rest == SubSeq(rows, off + 1, Len(rows))
    IN IF limit < 0 \/ limit + 1 >= Len(rest) THEN rest
       ELSE SubSeq(rest, 1, limit + 1)

\* GET /record/paginated/ and /user/paginated/: .offset(skip).limit(limit).
\* SQLite reads a negative OFFSET as 0 and a negative LIMIT as "no limit".
Page(rows, skip, limit) ==
    LET off == IF skip < 0 THEN 0 ELSE skip
        rest == SubSeq(rows, off + 1, Len(rows))
    IN IF limit < 0 \/ limit >= Len(rest) THEN rest ELSE SubSeq(rest, 1, limit)

get_paginated_record(db, skip, limit) ==
    Reply(db, 200,
          [total |-> Cardinality(DOMAIN db.records), skip |-> skip,
           limit |-> limit, data |-> Page(AllRows(db.records), skip, limit)])

\* create_record without the lookup of the user.
create_record_unchecked(db, record_data) ==
    LET id == NextId(db.records)
        row == Record(id, record_data.date, record_data.numberOfPushups,
                      record_data.user)
    IN Reply([db EXCEPT !.records = Insert(db.records, id, row)], 200,
             [record |-> row])

\* POST /record/
create_record(db, record_data) ==
    IF record_data.user \notin DOMAIN db.users
    THEN Fail(db, 400, "User not found")
    ELSE LET id == NextId(db.records)
             row == Record(id, record_data.date, record_data.numberOfPushups,
                           record_data.user)
             db1 == [db EXCEPT !.records = Insert(db.records, id, row)]
         IN IF ~Storable(row.numberOfPushups)
            THEN Raise(db, db1, 500, "Internal Server Error")
            ELSE Reply(db1, 200, [record |-> row])

\* The loop of bulk_create_record over items[idx ..]: `table` is the session's
\* view of the record table (flushed, not committed), `failed` says that a flush
\* has raised, after which every later flush raises too.
RECURSIVE bulk_create_record_loop(_, _, _, _, _, _)
bulk_create_record_loop(items, idx, table, created_items, errors, failed) ==
    IF idx > Len(items)
    THEN [table |-> table, created_items |-> created_items, errors |-> errors]
    ELSE LET item_data == items[idx]
             id == NextId(table)
             row == Record(id, item_data.date, item_data.numberOfPushups,
                           item_data.user)
         IN IF item_data.user = 0
            THEN bulk_create_record_loop(
                     items, idx + 1, table, created_items,
                     Append(errors, [index |-> idx - 1,
                                     error |-> "User ID is required"]),
                     failed)
            ELSE IF failed \/ ~Storable(row.numberOfPushups)
            THEN bulk_create_record_loop(
                     items, idx + 1, table, created_items,
                     Append(errors, [index |-> idx - 1, error |-> "flush"]),
                     TRUE)
            ELSE bulk_create_record_loop(
                     items, idx + 1, Insert(table, id, row),
                     Append(created_items, id), errors, failed)

\* bulk_create_record committing what was flushed instead of rolling back.
bulk_create_record_no_rollback(db, items) ==
    LET run == bulk_create_record_loop(items, 1, db.records, <<>>, <<>>, FALSE)
    IN IF run.errors # <<>>
       THEN Reply([db EXCEPT !.records = run.table], 400,
                  [message |-> "Bulk creation failed", errors |-> run.errors])
       ELSE Reply([db EXCEPT !.records = run.table], 200,
                  [created_count |-> Len(run.created_items),
                   created_ids |-> run.created_items])

\* POST /record/bulk/
bulk_create_record(db, items) ==
    LET run == bulk_create_record_loop(items, 1, db.records, <<>>, <<>>, FALSE)
    IN IF run.errors # <<>>
       THEN Reply(db, 400,
                  [message |-> "Bulk creation failed", errors |-> run.errors])
       ELSE Reply([db EXCEPT !.records = run.table], 200,
                  [created_count |-> Len(run.created_items),
                   created_ids |-> run.created_items])

\* The loop of bulk_delete_record and bulk_delete_user over ids[idx ..]. The
\* session does not autoflush, so every lookup reads the committed table.
RECURSIVE bulk_delete_loop(_, _, _, _, _, _)
bulk_delete_loop(table, ids, idx, deleted, deleted_count, not_found) ==
    IF idx > Len(ids)
    THEN [deleted |-> deleted, deleted_count |-> deleted_count,
          not_found |-> not_found]
    ELSE IF ids[idx] \in DOMAIN table
    THEN bulk_delete_loop(table, ids, idx + 1, deleted \cup {ids[idx]},
                          deleted_count + 1, not_found)
    ELSE bulk_delete_loop(table, ids, idx + 1, deleted, deleted_count,
                          Append(not_found, ids[idx]))

bulk_delete_record(db, ids) ==
    LET run == bulk_delete_loop(db.records, ids, 1, {}, 0, <<>>)
    IN Reply([db EXCEPT !.records = Remove(db.records, run.deleted)], 200,
             [deleted_count |-> run.deleted_count,
              not_found |-> run.not_found])

update_record(db, record_id, record_data) ==
    IF record_id \notin DOMAIN db.records
    THEN Fail(db, 404, "Record not found")
    ELSE LET \* setattr numberOfPushups, date
             set == Record(record_id, record_data.date,
                           record_data.numberOfPushups,
                           db.records[record_id].user_id)
             row == Record(record_id, record_data.date,
                           record_data.numberOfPushups, record_data.user)
             db1 == [db EXCEPT !.records[record_id] = row]
         IN IF record_data.user \notin DOMAIN db.users
            THEN Raise(db, [db EXCEPT !.records[record_id] = set], 400,
                       "User not found")
            ELSE IF ~Storable(record_data.numberOfPushups)
            THEN Raise(db, db1, 500, "Internal Server Error")
            ELSE Reply(db1, 200, [record |-> row])

delete_record(db, record_id) ==
    IF record_id \notin DOMAIN db.records
    THEN Fail(db, 404, "Record not found")
    ELSE Reply([db EXCEPT !.records = Remove(db.records, {record_id})], 200,
               [record |-> db.records[record_id]])

\* The method endpoint assigning the parameter instead of adding it.
execute_record_update_record_assign(db, record_id, record) ==
    IF record_id \notin DOMAIN db.records
    THEN Fail(db, 404, "Record not found")
    ELSE IF ~Storable(record)
    THEN Fail(db, 500, "Method execution failed")
    ELSE Reply([db EXCEPT !.records[record_id].numberOfPushups = record], 200,
               [record_id |-> record_id, method |-> "update_record",
                status |-> "executed"])

\* POST /record/{record_id}/methods/update_record/ with params = {record: d},
\* d an integer.  The addition (line 432, indented with a tab among lines
\* indented with spaces) is read as a statement of the try block, like the lines
\* around it; the commit binds the sum to the INTEGER column, and an exception
\* of the try block becomes status 500 with nothing committed.
execute_record_update_record(db, record_id, record) ==
    IF record_id \notin DOMAIN db.records
    THEN Fail(db, 404, "Record not found")
    ELSE LET sum == db.records[record_id].numberOfPushups + record
             db1 == [db EXCEPT !.records[record_id].numberOfPushups = sum]
         IN IF ~Storable(sum)
            THEN Raise(db, db1, 500, "Method execution failed")
            ELSE Reply(
                     db1,
                     200,
                     [record_id |-> record_id, method |-> "update_record",
                      status |-> "executed"])

\* --------------------------------------------------------- user handlers
RECURSIVE DetailedUsers(_, _)
DetailedUsers(db, rows) ==
    IF rows = <<>> THEN <<>>
    ELSE <<[user |-> Head(rows),
            hasRecords_ids |-> hasRecords_ids(db, Head(rows).id)]>>
             \o DetailedUsers(db, Tail(rows))

get_paginated_user(db, skip, limit, detailed) ==
    LET user_list == Page(AllRows(db.users), skip, limit)
    IN Reply(db, 200,
             [total |-> Cardinality(DOMAIN db.users), skip |-> skip,
              limit |-> limit,
              data |-> IF detailed THEN DetailedUsers(db, user_list)
                       ELSE user_list])

\* UPDATE record SET user_id = <user_id> WHERE id IN <ids>
Relink(table, ids, user_id) ==
    [i \in DOMAIN table |->
        IF i \in ids THEN [table[i] EXCEPT !.user_id = user_id] ELSE table[i]]

\* The first id of hasRecords that is no record, 0 when every id is one.
RECURSIVE FirstMissing(_, _, _)
FirstMissing(table, ids, idx) ==
    IF idx > Len(ids) THEN 0
    ELSE IF ids[idx] \notin DOMAIN table THEN ids[idx]
    ELSE FirstMissing(table, ids, idx + 1)

create_user(db, user_data) ==
    LET id == NextId(db.users)
        row == User(id, user_data.name, user_data.email)
        \* database.add(db_user); database.commit()
        db1 == [db EXCEPT !.users = Insert(db.users, id, row)]
        ids == user_data.hasRecords.ids
    IN IF user_data.hasRecords.given /\ ids # <<>>
       THEN IF FirstMissing(db1.records, ids, 1) # 0
            THEN Fail(db1, 400, "Record not found")
            ELSE LET db2 == [db1 EXCEPT
                                !.records = Relink(db1.records, Range(ids), id)]
                 IN Reply(db2, 200,
                          [user |-> row,
                           hasRecords_ids |-> hasRecords_ids(db2, id)])
       ELSE Reply(db1, 200,
                  [user |-> row, hasRecords_ids |-> hasRecords_ids(db1, id)])

RECURSIVE bulk_create_user_loop(_, _, _, _)
bulk_create_user_loop(items, idx, table, created_items) ==
    IF idx > Len(items)
    THEN [table |-> table, created_items |-> created_items, errors |-> <<>>]
    ELSE LET id == NextId(table)
             row == User(id, items[idx].name, items[idx].email)
         IN bulk_create_user_loop(items, idx + 1, Insert(table, id, row),
                                  Append(created_items, id))

bulk_create_user(db, items) ==
    LET run == bulk_create_user_loop(items, 1, db.users, <<>>)
    IN IF run.errors # <<>>
       THEN Reply(db, 400,
                  [message |-> "Bulk creation failed", errors |-> run.errors])
       ELSE Reply([db EXCEPT !.users = run.table], 200,
                  [created_count |-> Len(run.created_items),
                   created_ids |-> run.created_items])

\* Flushing the deletion of the users `ids`: the records of each are
\* de-associated first (user_id := NULL), which the NOT NULL column refuses.
OwnsRecords(db, ids) == \E r \in DOMAIN db.records : db.records[r].user_id \in ids

bulk_delete_user(db, ids) ==
    LET run == bulk_delete_loop(db.users, ids, 1, {}, 0, <<>>)
        db1 == [db EXCEPT !.users = Remove(db.users, run.deleted)]
    IN IF OwnsRecords(db, run.deleted)
       THEN Raise(db, db1, 409, "Conflict")
       ELSE Reply(db1, 200,
                  [deleted_count |-> run.deleted_count,
                   not_found |-> run.not_found])

update_user(db, user_id, user_data) ==
    IF user_id \notin DOMAIN db.users
    THEN Fail(db, 404, "User not found")
    ELSE LET row == User(user_id, user_data.name, user_data.email)
             db1 == [db EXCEPT !.users[user_id] = row]
             ids == user_data.hasRecords.ids
         IN IF ~user_data.hasRecords.given
            THEN Reply(db1, 200,
                       [user |-> row,
                        hasRecords_ids |-> hasRecords_ids(db1, user_id)])
            \* UPDATE record SET user_id = NULL WHERE user_id = <user_id>
            ELSE IF OwnsRecords(db, {user_id})
            THEN Raise(db, db1, 409, "Conflict")
            ELSE IF FirstMissing(db.records, ids, 1) # 0
            THEN Raise(db, db1, 400, "Record not found")
            ELSE LET db2 == [db1 EXCEPT
                                !.records =
                                    Relink(db1.records, Range(ids), user_id)]
                 IN Reply(db2, 200,
                          [user |-> row,
                           hasRecords_ids |-> hasRecords_ids(db2, user_id)])

delete_user(db, user_id) ==
    IF user_id \notin DOMAIN db.users
    THEN Fail(db, 404, "User not found")
    ELSE LET db1 == [db EXCEPT !.users = Remove(db.users, {user_id})]
         IN IF OwnsRecords(db, {user_id})
            THEN Raise(db, db1, 409, "Conflict")
            ELSE Reply(db1, 200, [user |-> db.users[user_id]])

\* ------------------------------------------------------------------ state
DB == [users |-> users, records |-> records]

\* No request is being served: the last session is closed.
NoRequest == [op |-> "none"]
NoResponse == [status |-> 0, body |-> [detail |-> ""]]
NoTables == [users |-> <<>>, records |-> <<>>]

\* The session of the request being served, as get_db holds it.  pc is the
\* place get_db has reached: "except" when the handler's exception has been
\* thrown in at the yield, "finally" when the close is next, "closed" after it.
\* uncommitted: the session holds changes that no commit has written;
\* discarded: the rollback of get_db found such changes; closes counts the
\* calls of db.close().
NoSession ==
    [pc |-> "none", raised |-> FALSE, uncommitted |-> FALSE,
     rolled_back |-> FALSE, discarded |-> FALSE, closes |-> 0]

\* Two requests to the method endpoint served at the same time, as by two
\* server processes on the same database file.  pc is the statement the request
\* runs next; numberOfPushups is the attribute of the Record object the request
\* has loaded; overlap records that one request read the row while the other
\* had read it and not yet committed.
Procs == {1, 2}

Idle ==
    [pc |-> "read", record_id |-> 0, record |-> 0, numberOfPushups |-> 0,
     status |-> 0, overlap |-> FALSE]

NoWorkers == [p \in Procs |-> Idle]

Init ==
    /\ users = <<>>
    /\ records = <<>>
    /\ request = NoRequest
    /\ response = NoResponse
    /\ before = NoTables
    /\ session = NoSession
    /\ workers = NoWorkers

\* One request: get_db opens a session, the handler runs to its end on the
\* event loop, and `response` is what the client is sent.  `before` keeps the
\* committed tables the request started from.
Handle(req, out) ==
    /\ request = NoRequest
    /\ request' = req
    /\ response' = [status |-> out.status, body |-> out.body]
    /\ before' = DB
    /\ users' = out.db.users
    /\ records' = out.db.records
    /\ session' = [pc |-> IF out.status = 200 THEN "finally" ELSE "except",
                   raised |-> out.status # 200,
                   uncommitted |-> out.pending # out.db,
                   rolled_back |-> FALSE, discarded |-> FALSE, closes |-> 0]
    /\ UNCHANGED workers

\* get_db that goes from its except clause to the close without db.rollback().
GetDbRollback_skipped ==
    /\ session.pc = "except"
    /\ session' = [session EXCEPT !.pc = "finally"]
    /\ UNCHANGED <<users, records, request, response, before, workers>>

\* get_db's `except Exception: db.rollback() ... raise`: the changes the
\* session has not committed are dropped; the committed tables stay.
GetDbRollback ==
    /\ session.pc = "except"
    /\ session' = [session EXCEPT !.pc = "finally", !.uncommitted = FALSE,
                                  !.rolled_back = TRUE,
                                  !.discarded = session.uncommitted]
    /\ UNCHANGED <<users, records, request, response, before, workers>>

\* get_db's `finally: db.close()`: the request is over.
CloseSession ==
    /\ request # NoRequest
    /\ session.pc = "finally"
    /\ request' = NoRequest
    /\ response' = NoResponse
    /\ before' = NoTables
    /\ session' = [session EXCEPT !.pc = "closed", !.uncommitted = FALSE,
                                  !.closes = session.closes + 1]
    /\ UNCHANGED <<users, records, workers>>

RecordItems == SeqsUpTo(RecordCreate, MaxBatch)
UserItems == SeqsUpTo({u \in UserCreate : ~u.hasRecords.given}, MaxBatch)
RecordIdLists == SeqsUpTo(RecordIds, MaxBatch)
UserIdLists == SeqsUpTo(UserIds, MaxBatch)

GetPaginatedRecord ==
    \E skip \in Skips, limit \in Limits :
        Handle([op |-> "get_paginated_record", skip |-> skip, limit |-> limit],
               get_paginated_record(DB, skip, limit))

CreateRecord ==
    \E record_data \in RecordCreate :
        /\ NextId(records) <= MaxRecordId
        /\ Handle([op |-> "create_record", data |-> record_data],
                  create_record(DB, record_data))

BulkCreateRecord ==
    \E items \in RecordItems :
        /\ NextId(records) + Len(items) - 1 <= MaxRecordId
        /\ Handle([op |-> "bulk_create_record", items |-> items],
                  bulk_create_record(DB, items))

BulkDeleteRecord ==
    \E ids \in RecordIdLists :
        Handle([op |-> "bulk_delete_record", ids |-> ids],
               bulk_delete_record(DB, ids))

UpdateRecord ==
    \E record_id \in RecordIds, record_data \in RecordCreate :
        Handle([op |-> "update_record", id |-> record_id, data |-> record_data],
               update_record(DB, record_id, record_data))

DeleteRecord ==
    \E record_id \in RecordIds :
        Handle([op |-> "delete_record", id |-> record_id],
               delete_record(DB, record_id))

ExecuteRecordUpdateRecord ==
    \E record_id \in RecordIds, record \in Deltas :
        Handle([op |-> "execute_record_update_record", id |-> record_id,
                record |-> record],
               execute_record_update_record(DB, record_id, record))

GetPaginatedUser ==
    \E skip \in Skips, limit \in Limits, detailed \in BOOLEAN :
        Handle([op |-> "get_paginated_user", skip |-> skip, limit |-> limit,
                detailed |-> detailed],
               get_paginated_user(DB, skip, limit, detailed))

CreateUser ==
    \E user_data \in UserCreate :
        /\ NextId(users) <= MaxUserId
        /\ Handle([op |-> "create_user", data |-> user_data],
                  create_user(DB, user_data))

BulkCreateUser ==
    \E items \in UserItems :
        /\ NextId(users) + Len(items) - 1 <= MaxUserId
        /\ Handle([op |-> "bulk_create_user", items |-> items],
                  bulk_create_user(DB, items))

BulkDeleteUser ==
    \E ids \in UserIdLists :
        Handle([op |-> "bulk_delete_user", ids |-> ids],
               bulk_delete_user(DB, ids))

UpdateUser ==
    \E user_id \in UserIds, user_data \in UserCreate :
        Handle([op |-> "update_user", id |-> user_id, data |-> user_data],
               update_user(DB, user_id, user_data))

DeleteUser ==
    \E user_id \in UserIds :
        Handle([op |-> "delete_user", id |-> user_id],
               delete_user(DB, user_id))

Next ==
    \/ GetPaginatedRecord
    \/ CreateRecord
    \/ BulkCreateRecord
    \/ BulkDeleteRecord
    \/ UpdateRecord
    \/ DeleteRecord
    \/ ExecuteRecordUpdateRecord
    \/ GetPaginatedUser
    \/ CreateUser
    \/ BulkCreateUser
    \/ BulkDeleteUser
    \/ UpdateUser
    \/ DeleteUser
    \/ GetDbRollback
    \/ CloseSession

Spec == Init /\ [][Next]_vars

\* The exit code of get_db runs when the handler is over: neither step waits
\* for anything.
FairSpec == Spec /\ WF_vars(GetDbRollback) /\ WF_vars(CloseSession)

\* ------------------------------------------- concurrent method requests
\* Tables the requests start from: one user owning records 1 .. n.
ConcurrentInit ==
    /\ users = <<User(1, "Alice", EmailOf("Alice"))>>
    /\ \E n \in 1 .. MaxRecordId :
           \E pushups \in [1 .. n -> PushupInputs] :
               records = [id \in 1 .. n |->
                             Record(id, DateOf(1), pushups[id], 1)]
    /\ before = DB
    /\ request = NoRequest
    /\ response = NoResponse
    /\ session = NoSession
    /\ workers = NoWorkers

\* Line 415: the SELECT of the record.  It takes no lock that outlasts it.
MethodRead(p) ==
    /\ workers[p].pc = "read"
    /\ \E record_id \in RecordIds, record \in Deltas :
           LET unread == \E q \in Procs \ {p} :
                             workers[q].pc \in {"add", "commit"}
               found == record_id \in DOMAIN records
               me == [pc |-> IF found THEN "add" ELSE "done",
                      record_id |-> record_id, record |-> record,
                      numberOfPushups |->
                          IF found THEN records[record_id].numberOfPushups
                          ELSE 0,
                      status |-> IF found THEN 0 ELSE 404,
                      overlap |-> found /\ unread]
           IN workers' = [q \in Procs |->
                             IF q = p THEN me
                             ELSE [workers[q] EXCEPT
                                      !.overlap = @ \/ (found /\ unread)]]
    /\ UNCHANGED <<users, records, request, response, before, session>>

\* The addition storing the delta itself in the loaded object.
MethodAdd_assign(p) ==
    /\ workers[p].pc = "add"
    /\ workers' = [workers EXCEPT ![p].pc = "commit",
                                  ![p].numberOfPushups = workers[p].record]
    /\ UNCHANGED <<users, records, request, response, before, session>>

\* Line 432: the addition, in Python, on the loaded object.
MethodAdd(p) ==
    /\ workers[p].pc = "add"
    /\ workers' = [workers EXCEPT ![p].pc = "commit",
                                  ![p].numberOfPushups = @ + workers[p].record]
    /\ UNCHANGED <<users, records, request, response, before, session>>

\* Line 436: the commit flushes UPDATE record SET numberOfPushups = <the
\* object's value> WHERE id = <record_id>; a value that cannot be bound raises,
\* which the handler turns into status 500.
MethodCommit(p) ==
    /\ workers[p].pc = "commit"
    /\ IF Storable(workers[p].numberOfPushups)
       THEN /\ records' = [records EXCEPT
                              ![workers[p].record_id].numberOfPushups =
                                  workers[p].numberOfPushups]
            /\ workers' = [workers EXCEPT ![p].pc = "done", ![p].status = 200]
       ELSE /\ records' = records
            /\ workers' = [workers EXCEPT ![p].pc = "done", ![p].status = 500]
    /\ UNCHANGED <<users, request, response, before, session>>

ConcurrentNext ==
    \E p \in Procs :
        \/ MethodRead(p)
        \/ MethodAdd(p)
        \/ MethodCommit(p)

ConcurrentSpec == ConcurrentInit /\ [][ConcurrentNext]_vars

\* ----------------------------------------------------------------- claims
Op(name) == request.op = name

TablesUnchanged == users = before.users /\ records = before.records

\* The ids a request added to a table.
Added(table, table0) == DOMAIN table \ DOMAIN table0

\* C1: POST /record/ with a user id that is no User row fails with status 400
\* and leaves the record table as it was; when it succeeds, the one record it
\* adds carries the user id of the payload, which was a User row at that time.
C1_create_record_checks_user ==
    Op("create_record") =>
        /\ request.data.user \notin DOMAIN before.users =>
               response.status = 400 /\ records = before.records
        /\ response.status = 200 =>
               /\ Cardinality(Added(records, before.records)) = 1
               /\ \A id \in Added(records, before.records) :
                      /\ records[id].user_id = request.data.user
                      /\ records[id].user_id \in DOMAIN before.users

\* A create_record naming a non-zero id that is no user, while users exist.
C1_witness ==
    /\ Op("create_record")
    /\ before.users # <<>>
    /\ request.data.user # 0
    /\ request.data.user \notin DOMAIN before.users
    /\ response.status = 400
\* An item of a record batch that the loop records as an error.
RecordedAsError(item_data) ==
    item_data.user = 0 \/ ~Storable(item_data.numberOfPushups)

\* C2: a bulk create is all or nothing: either it answers 400 and both tables
\* are as before, or it answers 200 and every item of the batch is a new row;
\* a batch with an item recorded as an error answers 400.  (No item of a user
\* batch can be recorded as an error: bulk_create_user validates nothing.)
C2_bulk_create_all_or_nothing ==
    /\ Op("bulk_create_record") =>
           /\ (\E i \in DOMAIN request.items :
                   RecordedAsError(request.items[i])) => response.status = 400
           /\ \/ response.status = 400 /\ TablesUnchanged
              \/ /\ response.status = 200
                 /\ users = before.users
                 /\ Cardinality(Added(records, before.records))
                        = Len(request.items)
                 /\ \A id \in DOMAIN before.records :
                        id \in DOMAIN records /\ records[id] = before.records[id]
    /\ Op("bulk_create_user") =>
           \/ response.status = 400 /\ TablesUnchanged
           \/ /\ response.status = 200
              /\ records = before.records
              /\ Cardinality(Added(users, before.users)) = Len(request.items)
              /\ \A id \in DOMAIN before.users :
                     id \in DOMAIN users /\ users[id] = before.users[id]

\* A record batch whose first item is valid (and was flushed) and whose second
\* item is recorded as an error.
C2_witness ==
    /\ Op("bulk_create_record")
    /\ Len(request.items) = 2
    /\ request.items[1].user \in DOMAIN before.users
    /\ RecordedAsError(request.items[2])
    /\ response.status = 400

\* The table a bulk delete works on, before and after the request.
DeleteTable0 == IF Op("bulk_delete_record") THEN before.records ELSE before.users
DeleteTable == IF Op("bulk_delete_record") THEN records ELSE users

\* C3 (as claimed): a bulk delete answers 200, removes every listed id that
\* existed, reports every listed id that did not exist in not_found, leaves the
\* other rows untouched, and deleted_count + len(not_found) = len(ids).
C3_bulk_delete_removes_all_listed ==
    (Op("bulk_delete_record") \/ Op("bulk_delete_user")) =>
        /\ response.status = 200
        /\ \A i \in DOMAIN request.ids :
               IF request.ids[i] \in DOMAIN DeleteTable0
               THEN request.ids[i] \notin DOMAIN DeleteTable
               ELSE request.ids[i] \in Range(response.body.not_found)
        /\ \A id \in DOMAIN DeleteTable0 \ Range(request.ids) :
               id \in DOMAIN DeleteTable /\ DeleteTable[id] = DeleteTable0[id]
        /\ response.body.deleted_count + Len(response.body.not_found)
               = Len(request.ids)

\* The rows of the entity a paginated request lists, and the rows of its data.
PagedRows == AllRows(IF Op("get_paginated_record") THEN records ELSE users)
DataRow(j) ==
    IF Op("get_paginated_user") /\ request.detailed
    THEN response.body.data[j].user
    ELSE response.body.data[j]

\* data is the rows at offsets skip .. skip + limit - 1 of the full list.
DataIsRowsAtOffsets ==
    LET offsets == {k \in 0 .. Len(PagedRows) - 1 :
                        request.skip <= k /\ k <= request.skip + request.limit - 1}
    IN /\ Len(response.body.data) = Cardinality(offsets)
       /\ \A j \in DOMAIN response.body.data :
              /\ request.skip + j - 1 \in offsets
              /\ DataRow(j) = PagedRows[request.skip + j]

PagedTotalAndEcho ==
    /\ response.status = 200
    /\ response.body.total = Len(PagedRows)
    /\ response.body.skip = request.skip
    /\ response.body.limit = request.limit

WithDelta(table, id, record) ==
    [table EXCEPT ![id].numberOfPushups = @ + record]

\* Calling the method with d and then with -d on every record of the current
\* tables: `need_first` asks the first call to have succeeded.
RoundTrip(need_first) ==
    \A id \in DOMAIN records, d \in Deltas :
        LET first == execute_record_update_record(DB, id, d)
            second == execute_record_update_record(first.db, id, -d)
        IN (need_first => first.status = 200) =>
               second.db.records[id].numberOfPushups
                   = records[id].numberOfPushups

\* C5 (as claimed): the method endpoint sets numberOfPushups of an existing
\* record to previous + d for any integer d and changes nothing else; d and
\* then -d returns numberOfPushups to its original value.
C5_method_adds_any_integer ==
    /\ (Op("execute_record_update_record") /\ request.id \in DOMAIN before.records)
           => /\ response.status = 200
              /\ records = WithDelta(before.records, request.id, request.record)
              /\ users = before.users
    /\ RoundTrip(FALSE)

\* C5 (amended): when previous + d fits the INTEGER column the endpoint sets
\* numberOfPushups to exactly previous + d and changes nothing else; when it
\* does not fit, the request fails with status 500 and nothing changes.  d and
\* then -d returns the original value whenever the call with d succeeded.
C5_method_adds_storable_delta ==
    /\ (Op("execute_record_update_record") /\ request.id \in DOMAIN before.records)
           => IF Storable(before.records[request.id].numberOfPushups
                              + request.record)
              THEN /\ response.status = 200
                   /\ records
                          = WithDelta(before.records, request.id, request.record)
                   /\ users = before.users
              ELSE response.status = 500 /\ TablesUnchanged
    /\ RoundTrip(TRUE)

\* A negative delta applied to a record while another record exists.
C5_witness ==
    /\ Op("execute_record_update_record")
    /\ request.id \in DOMAIN before.records
    /\ request.record < 0
    /\ response.status = 200
    /\ Cardinality(DOMAIN records) = 2
    /\ records[request.id].numberOfPushups
           = before.records[request.id].numberOfPushups + request.record

OwnedBy(table, user_id) == {r \in DOMAIN table : table[r].user_id = user_id}

\* C6 (as claimed): PUT /user/{id}/ with a provided list L of existing record
\* ids succeeds and leaves the user owning exactly the records of L (none for
\* L = []); with hasRecords absent no record's user_id changes.
C6_update_user_replaces_ownership ==
    (Op("update_user") /\ request.id \in DOMAIN before.users) =>
        IF request.data.hasRecords.given
        THEN Range(request.data.hasRecords.ids) \subseteq DOMAIN before.records
                 => /\ response.status = 200
                    /\ OwnedBy(records, request.id)
                           = Range(request.data.hasRecords.ids)
        ELSE /\ DOMAIN records = DOMAIN before.records
             /\ \A r \in DOMAIN records :
                    records[r].user_id = before.records[r].user_id

\* C7 (as claimed): a PUT /user/{id}/ naming a missing record and a
\* PUT /record/{id}/ naming a missing user fail with status 400 and leave the
\* tables as before.
C7_failed_validation_answers_400 ==
    (\/ /\ Op("update_user")
        /\ request.id \in DOMAIN before.users
        /\ request.data.hasRecords.given
        /\ ~(Range(request.data.hasRecords.ids) \subseteq DOMAIN before.records)
     \/ /\ Op("update_record")
        /\ request.id \in DOMAIN before.records
        /\ request.data.user \notin DOMAIN before.users)
        => response.status = 400 /\ TablesUnchanged

\* C8 (as claimed): POST /user/ persists the new user only together with the
\* listed records pointing to it; a create_user answering 400 persists no user.
C8_create_user_atomic ==
    Op("create_user") =>
        /\ response.status = 400 => users = before.users
        /\ \A u \in Added(users, before.users) :
               \A r \in Range(request.data.hasRecords.ids) :
                   r \in DOMAIN records /\ records[r].user_id = u

\* C9 (as claimed): POST /record/bulk/ persists no record whose user id is not
\* a user at that time; a batch with such an item fails with status 400.
C9_bulk_create_record_checks_user ==
    Op("bulk_create_record") =>
        /\ \A id \in Added(records, before.records) :
               records[id].user_id \in DOMAIN before.users
        /\ (\E i \in DOMAIN request.items :
                request.items[i].user \notin DOMAIN before.users)
               => response.status = 400

\* C10 (as claimed): every persisted record's user_id is the id of a
\* currently existing user.
C10_referential_integrity ==
    \A r \in DOMAIN records : records[r].user_id \in DOMAIN users
\* C11 (as claimed): deleting a user that exists (DELETE /user/{id}/, or
\* DELETE /user/bulk/ naming it) succeeds whether or not records reference it,
\* removes it, and leaves the record table identical.
C11_delete_user_succeeds_keeps_records ==
    /\ (Op("delete_user") /\ request.id \in DOMAIN before.users) =>
           /\ records = before.records
           /\ response.status = 200
           /\ request.id \notin DOMAIN users
    /\ Op("bulk_delete_user") =>
           /\ records = before.records
           /\ response.status = 200
           /\ \A i \in DOMAIN request.ids : request.ids[i] \notin DOMAIN users

\* C14 (as claimed): the deleted_count a bulk delete reports is the number of
\* rows the request removed from the table, repeated ids included.
C14_deleted_count_is_rows_removed ==
    ((Op("bulk_delete_record") \/ Op("bulk_delete_user"))
        /\ response.status = 200) =>
        response.body.deleted_count
            = Cardinality(DOMAIN DeleteTable0 \ DOMAIN DeleteTable)
\* C12: a request's session is closed, once, on every exit path of the
\* handler (return, HTTPException, any other exception); when the handler
\* raised, get_db has rolled the session back before it closes it, and neither
\* step of get_db's exit writes to the tables.
SessionOpen == session.pc \in {"except", "finally"}

C12_session_released_once ==
    /\ [](session.closes <= 1)
    /\ [](session.pc = "closed" <=> session.closes = 1)
    /\ []((session.pc \in {"finally", "closed"} /\ session.raised) =>
              (session.rolled_back /\ ~session.uncommitted))
    /\ [][SessionOpen => UNCHANGED <<users, records>>]_vars
    /\ SessionOpen ~> (session.pc = "closed" /\ session.closes = 1)

\* A handler raised with changes not committed, and its session is closed.
C12_witness ==
    /\ session.pc = "closed"
    /\ session.raised
    /\ session.discarded
    /\ session.closes = 1
\* C13 (as claimed): two requests to the method endpoint on the same record,
\* both answered 200, leave initial + d1 + d2 in it however their steps
\* interleave.
Executed(p) == workers[p].pc = "done" /\ workers[p].status = 200

BothExecuted ==
    /\ Executed(1)
    /\ Executed(2)
    /\ workers[1].record_id = workers[2].record_id

SumOfBoth ==
    before.records[workers[1].record_id].numberOfPushups
        + workers[1].record + workers[2].record

C13_no_lost_update ==
    BothExecuted =>
        records[workers[1].record_id].numberOfPushups = SumOfBoth

\* C13 (amended): the record holds initial + d1 + d2 when neither request read
\* the row between the other's read and commit; in every case it holds the
\* sum that one of the executed requests computed from the value it read.
C13_no_lost_update_when_serial ==
    /\ (BothExecuted /\ ~workers[1].overlap /\ ~workers[2].overlap) =>
           records[workers[1].record_id].numberOfPushups = SumOfBoth
    /\ \A p \in Procs :
           Executed(p) =>
               \E q \in Procs :
                   /\ Executed(q)
                   /\ workers[q].record_id = workers[p].record_id
                   /\ records[workers[p].record_id].numberOfPushups
                          = workers[q].numberOfPushups

\* Two requests on one record, one after the other, both with a delta that
\* changes it.
C13_witness ==
    /\ BothExecuted
    /\ ~workers[1].overlap
    /\ ~workers[2].overlap
    /\ workers[1].record = -10
    /\ workers[2].record = -10
    /\ before.records[workers[1].record_id].numberOfPushups = 10
    /\ records[workers[1].record_id].numberOfPushups = SumOfBoth
====
